---- MODULE Spec2Model ----
(***************************************************************************)
(* Model of node-api/index.js: the in-memory task store (dataMap, nextId)  *)
(* and its Express handlers GET/POST/PUT/PATCH/DELETE on /tasks.           *)
(*                                                                         *)
(* A JSON value is a record [type, v]; type is the JavaScript kind of the  *)
(* value and v its content: a string for the scalars, a function from      *)
(* property names to JSON values for an object, a sequence for an array.   *)
(* Request bodies are objects or arrays of objects, as the handlers'       *)
(* swagger annotations declare them.                                       *)
(***************************************************************************)
EXTENDS Integers, Sequences, FiniteSets, TLC

VARIABLES dataMap, nextId, req, res

vars == <<dataMap, nextId, req, res>>

\* Largest identifier the model issues, and longest array body of a POST.
MaxId == 3
MaxBatch == 2

----------------------------------------------------------------------------
\* JSON values and the JavaScript operators the handlers apply to them.

Str(s) == [type |-> "string", v |-> s]
Num(s) == [type |-> "number", v |-> s]
Bool(s) == [type |-> "boolean", v |-> s]
Null == [type |-> "null", v |-> "null"]
Undefined == [type |-> "undefined", v |-> "undefined"]
Obj(f) == [type |-> "object", v |-> f]
Arr(s) == [type |-> "array", v |-> s]

EmptyFields == [f \in {} |-> Undefined]

\* Array.isArray(body)
IsArray(x) == x.type = "array"

\* typeof x
TypeOf(x) == IF x.type \in {"null", "array"} THEN "object" ELSE x.type

\* ToBoolean(x): the test of `if (x)`, `!x`, `a && b`
Truthy(x) ==
    CASE x.type = "string" -> x.v # ""
      [] x.type = "number" -> x.v # "0"
      [] x.type = "boolean" -> x.v = "true"
      [] x.type \in {"null", "undefined"} -> FALSE
      [] OTHER -> TRUE

\* x.name for a value x that is not null or undefined
Prop(x, name) ==
    IF x.type = "object" /\ name \in DOMAIN x.v THEN x.v[name] ELSE Undefined

HasProp(x, name) == x.type = "object" /\ name \in DOMAIN x.v

\* x.name = val
SetProp(x, name, val) ==
    Obj([f \in DOMAIN x.v \cup {name} |-> IF f = name THEN val ELSE x.v[f]])

\* delete x.name
DeleteProp(x, name) ==
    Obj([f \in DOMAIN x.v \ {name} |-> x.v[f]])

\* { id, ...value }: the spread follows id, so an own id of value overrides it
SpreadAfterId(id, value) ==
    Obj([f \in DOMAIN value.v \cup {"id"} |->
            IF f \in DOMAIN value.v THEN value.v[f] ELSE Str(id)])

\* (n).toString()
NewId(n) == ToString(n)

----------------------------------------------------------------------------
\* dataMap: a JavaScript Map, kept as its entries in insertion order.

Has(m, id) == \E i \in 1..Len(m) : m[i].key = id

MapGet(m, id) == m[CHOOSE i \in 1..Len(m) : m[i].key = id].value

MapSet(m, id, value) ==
    IF Has(m, id)
    THEN [i \in 1..Len(m) |->
            IF m[i].key = id THEN [key |-> id, value |-> value] ELSE m[i]]
    ELSE Append(m, [key |-> id, value |-> value])

MapDelete(m, id) ==
    LET keep(e) == e.key # id IN SelectSeq(m, keep)

Keys(m) == {m[i].key : i \in 1..Len(m)}

----------------------------------------------------------------------------
\* Responses.

Response(status, body) == [status |-> status, body |-> body]

NotFound == Response(404, Obj([error |-> Str("Item nao encontrado")]))
PutNotFound == Response(404, Obj([error |-> Str("Tarefa nao encontrada")]))
PutInvalid ==
    Response(400, Obj([error |-> Str("Dados invalidos ou campos obrigatorios ausentes")]))
Deleted == Response(200, Obj([message |-> Str("Item deletado com sucesso")]))

\* A request: its method, its route, req.params.id and req.body.
Request(method, route, id, body) ==
    [method |-> method, route |-> route, id |-> id, body |-> body]

----------------------------------------------------------------------------
\* Request bodies.

\* a valid task that carries its own id and a nested value.id
TaskB ==
    Obj([id |-> Str("99"), title |-> Str("c"), describe |-> Str("d"),
         isCompleted |-> Bool("true"),
         value |-> Obj([id |-> Str("7"), x |-> Str("k")])])

\* a task without id, describe and isCompleted whose nested value.id is the
\* number 0
TaskZ ==
    Obj([title |-> Str("e"), value |-> Obj([id |-> Num("0"), x |-> Str("k")])])

Bodies == {TaskB, TaskZ}

\* PUT is the one handler that reads title, describe and isCompleted: its
\* bodies also range over the one-field variations of the valid task
\* {title: "a", describe: "b", isCompleted: false}.
NoTitle == Obj([describe |-> Str("b"), isCompleted |-> Bool("false")])
EmptyTitle ==
    Obj([title |-> Str(""), describe |-> Str("b"), isCompleted |-> Bool("false")])
NoDescribe == Obj([title |-> Str("a"), isCompleted |-> Bool("false")])
EmptyDescribe ==
    Obj([title |-> Str("a"), describe |-> Str(""), isCompleted |-> Bool("false")])
NoIsCompleted == Obj([title |-> Str("a"), describe |-> Str("b")])
StringIsCompleted ==
    Obj([title |-> Str("a"), describe |-> Str("b"), isCompleted |-> Str("false")])

PutBodies ==
    Bodies \cup {NoTitle, EmptyTitle, NoDescribe, EmptyDescribe,
                 NoIsCompleted, StringIsCompleted}

\* array bodies of at most MaxBatch tasks
RECURSIVE SeqsUpTo(_, _)
SeqsUpTo(S, n) ==
    IF n = 0 THEN {<<>>}
    ELSE LET shorter == SeqsUpTo(S, n - 1)
         IN shorter \cup {Append(s, b) : s \in shorter, b \in S}

Batches(S) == {Arr(s) : s \in SeqsUpTo(S, MaxBatch)}

\* the bodies of a POST: one task, or an array of tasks
PostBodies == Bodies \cup Batches(Bodies)

\* the ids a request path can name: every id the model can issue, and one
\* string that is no id
PathIds == {NewId(n) : n \in 1..MaxId} \cup {"01"}

----------------------------------------------------------------------------
\* app.get('/tasks')
ListTasks(m) ==
    Response(200, Arr([i \in 1..Len(m) |-> SpreadAfterId(m[i].key, m[i].value)]))

GetTasks ==
    /\ req' = Request("GET", "/tasks", "", Null)
    /\ res' = ListTasks(dataMap)
    /\ UNCHANGED <<dataMap, nextId>>

\* app.get('/tasks/:id')
GetTask(m, id) ==
    IF Has(m, id) THEN Response(200, SpreadAfterId(id, MapGet(m, id))) ELSE NotFound

GetTaskById(id) ==
    /\ req' = Request("GET", "/tasks/:id", id, Null)
    /\ res' = GetTask(dataMap, id)
    /\ UNCHANGED <<dataMap, nextId>>

\* if (task.value && task.value.id)
HasValueId(task) ==
    /\ Truthy(Prop(task, "value"))
    /\ Truthy(Prop(Prop(task, "value"), "id"))

\* Normalize without `task.id = id`
NormalizeNoId(task, id) ==
    IF HasValueId(task)
    THEN SetProp(task, "value", DeleteProp(Prop(task, "value"), "id"))
    ELSE task

\* task.id = id; if (...) { delete task.value.id }
Normalize(task, id) ==
    LET withId == SetProp(task, "id", Str(id))
    IN  IF HasValueId(withId)
        THEN SetProp(withId, "value", DeleteProp(Prop(withId, "value"), "id"))
        ELSE withId

\* CreateOne taking the id from the size of the map instead of nextId
CreateOneFromSize(m, n, body) ==
    LET id == NewId(Len(m) + 1)
        task == Normalize(body, id)
    IN  [dataMap |-> MapSet(m, id, task), nextId |-> n + 1,
         res |-> Response(201, task)]

\* CreateOne reading nextId without the ++
CreateOneNoIncrement(m, n, body) ==
    LET id == NewId(n)
        task == Normalize(body, id)
    IN  [dataMap |-> MapSet(m, id, task), nextId |-> n,
         res |-> Response(201, task)]

\* app.post('/tasks'), the single-object branch
CreateOne(m, n, body) ==
    LET id == NewId(n)
        task == Normalize(body, id)
    IN  [dataMap |-> MapSet(m, id, task), nextId |-> n + 1,
         res |-> Response(201, task)]

\* app.post('/tasks'), the array branch: the for loop from element i on
RECURSIVE BatchLoop(_, _, _, _, _, _)
BatchLoop(tasks, i, m, n, addedTasks, errors) ==
    IF i > Len(tasks)
    THEN [dataMap |-> m, nextId |-> n, addedTasks |-> addedTasks, errors |-> errors]
    ELSE LET id == NewId(n)
             task == Normalize(tasks[i], id)
         IN  IF Has(m, id)
             THEN BatchLoop(tasks, i + 1, m, n + 1, addedTasks,
                      Append(errors, Obj([id |-> Str(id), error |-> Str("ID ja existe")])))
             ELSE BatchLoop(tasks, i + 1, MapSet(m, id, task), n + 1,
                      Append(addedTasks, task), errors)

CreateBatch(m, n, body) ==
    LET done == BatchLoop(body.v, 1, m, n, <<>>, <<>>)
    IN  [dataMap |-> done.dataMap, nextId |-> done.nextId,
         res |-> IF Len(done.errors) > 0
                 THEN Response(400, Obj([errors |-> Arr(done.errors)]))
                 ELSE Response(201, Arr(done.addedTasks))]

PostTasks(body) ==
    LET out == IF IsArray(body) THEN CreateBatch(dataMap, nextId, body)
               ELSE CreateOne(dataMap, nextId, body)
    IN  /\ out.nextId <= MaxId + 1
        /\ req' = Request("POST", "/tasks", "", body)
        /\ dataMap' = out.dataMap
        /\ nextId' = out.nextId
        /\ res' = out.res

\* DeleteTask handing the deleted id back: nextId-- on a delete
DeleteTaskReclaim(id) ==
    /\ req' = Request("DELETE", "/tasks/:id", id, Null)
    /\ IF Has(dataMap, id)
       THEN /\ dataMap' = MapDelete(dataMap, id)
            /\ nextId' = nextId - 1
            /\ res' = Deleted
       ELSE /\ dataMap' = dataMap
            /\ nextId' = nextId
            /\ res' = NotFound

\* app.delete('/tasks/:id')
DeleteTask(id) ==
    /\ req' = Request("DELETE", "/tasks/:id", id, Null)
    /\ IF Has(dataMap, id)
       THEN /\ dataMap' = MapDelete(dataMap, id)
            /\ res' = Deleted
       ELSE /\ dataMap' = dataMap
            /\ res' = NotFound
    /\ UNCHANGED nextId

\* PatchTask merging the body into the stored record: { ...old, ...body }
PatchTaskMerge(id, body) ==
    /\ req' = Request("PATCH", "/tasks/:id", id, body)
    /\ IF Has(dataMap, id)
       THEN LET old == MapGet(dataMap, id)
                merged == Obj([f \in DOMAIN old.v \cup DOMAIN body.v |->
                                 IF f \in DOMAIN body.v THEN body.v[f] ELSE old.v[f]])
            IN  /\ dataMap' = MapSet(dataMap, id, merged)
                /\ res' = Response(201, merged)
       ELSE /\ dataMap' = dataMap
            /\ res' = NotFound
    /\ UNCHANGED nextId

\* app.patch('/tasks/:id')
PatchTask(id, body) ==
    /\ req' = Request("PATCH", "/tasks/:id", id, body)
    /\ IF Has(dataMap, id)
       THEN /\ dataMap' = MapSet(dataMap, id, body)
            /\ res' = Response(201, body)
       ELSE /\ dataMap' = dataMap
            /\ res' = NotFound
    /\ UNCHANGED nextId

\* Invalid with && for ||
InvalidAll(updatedTask) ==
    /\ ~Truthy(Prop(updatedTask, "title"))
    /\ ~Truthy(Prop(updatedTask, "describe"))
    /\ TypeOf(Prop(updatedTask, "isCompleted")) # "boolean"

\* !updatedTask.title || !updatedTask.describe ||
\* typeof updatedTask.isCompleted !== 'boolean'
Invalid(updatedTask) ==
    \/ ~Truthy(Prop(updatedTask, "title"))
    \/ ~Truthy(Prop(updatedTask, "describe"))
    \/ TypeOf(Prop(updatedTask, "isCompleted")) # "boolean"

\* PutTask storing the body before it validates it
PutTaskStoreFirst(id, updatedTask) ==
    /\ req' = Request("PUT", "/tasks/:id", id, updatedTask)
    /\ IF ~Has(dataMap, id)
       THEN /\ dataMap' = dataMap
            /\ res' = PutNotFound
       ELSE /\ dataMap' = MapSet(dataMap, id, updatedTask)
            /\ res' = IF Invalid(updatedTask) THEN PutInvalid
                      ELSE Response(200, SpreadAfterId(id, updatedTask))
    /\ UNCHANGED nextId

\* app.put('/tasks/:id')
PutTask(id, updatedTask) ==
    /\ req' = Request("PUT", "/tasks/:id", id, updatedTask)
    /\ IF ~Has(dataMap, id)
       THEN /\ dataMap' = dataMap
            /\ res' = PutNotFound
       ELSE IF Invalid(updatedTask)
       THEN /\ dataMap' = dataMap
            /\ res' = PutInvalid
       ELSE /\ dataMap' = MapSet(dataMap, id, updatedTask)
            /\ res' = Response(200, SpreadAfterId(id, updatedTask))
    /\ UNCHANGED nextId

----------------------------------------------------------------------------
\* const dataMap = new Map(); let nextId = 1; no request served yet.
Init ==
    /\ dataMap = <<>>
    /\ nextId = 1
    /\ req = Request("NONE", "", "", Null)
    /\ res = Response(0, Null)

\* Express runs one handler at a time, each to completion.
Next ==
    \/ GetTasks
    \/ \E id \in PathIds : GetTaskById(id)
    \/ \E body \in PostBodies : PostTasks(body)
    \/ \E id \in PathIds : DeleteTask(id)
    \/ \E id \in PathIds, body \in Bodies : PatchTask(id, body)
    \/ \E id \in PathIds, updatedTask \in PutBodies : PutTask(id, updatedTask)

Spec == Init /\ [][Next]_vars

----------------------------------------------------------------------------
\* The request just served, read off req and res.

IsCreateOne(r) == r.method = "POST" /\ ~IsArray(r.body)
IsCreateBatch(r) == r.method = "POST" /\ IsArray(r.body)

\* the ids issued so far
Issued(n) == {NewId(k) : k \in 1..(n - 1)}

\* C1: a single-object POST answers 201 with the record it stored; the
\* record's id is the string form of nextId before the call, whatever id the
\* body carried, it is the key the record is stored under, and a GET of that
\* id right afterwards returns the same record.
C1_CreateOneRoundTrip ==
    IsCreateOne(req) =>
        LET id == NewId(nextId - 1)
        IN  /\ res.status = 201
            /\ Prop(res.body, "id") = Str(id)
            /\ Has(dataMap, id)
            /\ MapGet(dataMap, id) = res.body
            /\ GetTask(dataMap, id).status = 200
            /\ GetTask(dataMap, id).body = res.body

\* a second create whose body carried an id of its own that the store replaced
C1_Witness ==
    /\ IsCreateOne(req)
    /\ res.status = 201
    /\ nextId = 3
    /\ HasProp(req.body, "id")
    /\ Prop(req.body, "id") # Prop(res.body, "id")
    /\ GetTask(dataMap, "2").body = res.body

\* C2: identifiers are issued in sequence and never handed back: nextId
\* never decreases and only a POST changes it; a single-object POST stores
\* its record under the id nextId and advances nextId by one; an array POST
\* of n tasks stores its i-th task under the id nextId + i - 1 and advances
\* nextId by n; none of these ids was a key before. From nextId = 1 at the
\* start, the k-th record ever created gets the id k.
C2_IdsSequential ==
    [][/\ nextId' >= nextId
       /\ req'.method # "POST" => nextId' = nextId
       /\ IsCreateOne(req') =>
            /\ nextId' = nextId + 1
            /\ Prop(res'.body, "id") = Str(NewId(nextId))
            /\ ~Has(dataMap, NewId(nextId))
            /\ Has(dataMap', NewId(nextId))
            /\ MapGet(dataMap', NewId(nextId)) = res'.body
       /\ IsCreateBatch(req') =>
            LET n == Len(req'.body.v)
            IN  /\ nextId' = nextId + n
                /\ res'.status = 201
                /\ Len(res'.body.v) = n
                /\ \A i \in 1..n :
                      LET id == NewId(nextId + i - 1)
                      IN  /\ Prop(res'.body.v[i], "id") = Str(id)
                          /\ ~Has(dataMap, id)
                          /\ Has(dataMap', id)
                          /\ MapGet(dataMap', id) = res'.body.v[i]
      ]_vars

\* an array of two tasks created after id 1 was issued and deleted: the tasks
\* got the ids 2 and 3
C2_Witness ==
    /\ IsCreateBatch(req)
    /\ Len(req.body.v) = 2
    /\ res.status = 201
    /\ nextId = 4
    /\ Keys(dataMap) = {"2", "3"}
    /\ Prop(res.body.v[1], "id") = Str("2")
    /\ Prop(res.body.v[2], "id") = Str("3")

\* C3: every record a read materializes carries the key it is stored under
\* as its id: GET /tasks/k answers a record whose id is k, and the i-th
\* element of GET /tasks has the id of the i-th key.
C3_ReadIdIsKey ==
    \A i \in 1..Len(dataMap) :
        LET k == dataMap[i].key
        IN  /\ Prop(GetTask(dataMap, k).body, "id") = Str(k)
            /\ Prop(ListTasks(dataMap).body.v[i], "id") = Str(k)

\* C4: a request answered 400 or 404 leaves dataMap and nextId as they were.
C4_ErrorsBeforeMutation ==
    [][res'.status \in {400, 404} => dataMap' = dataMap /\ nextId' = nextId]_vars

\* a PUT of an existing id was answered 400 with two records in the store
C4_Witness ==
    /\ req.method = "PUT"
    /\ req.body = TaskZ
    /\ res.status = 400
    /\ Has(dataMap, req.id)
    /\ Len(dataMap) = 2

\* the field is absent, or is the empty string
MissingOrEmpty(body, name) ==
    \/ ~HasProp(body, name)
    \/ Prop(body, name).type = "string" /\ Prop(body, name).v = ""

\* C5: a PUT of an existing id whose body has no title or an empty one, no
\* describe or an empty one, or an isCompleted that is no boolean, is answered
\* 400, and dataMap and nextId are unchanged.
C5_PutRejectsInvalid ==
    [][(/\ req'.method = "PUT"
        /\ Has(dataMap, req'.id)
        /\ \/ MissingOrEmpty(req'.body, "title")
           \/ MissingOrEmpty(req'.body, "describe")
           \/ Prop(req'.body, "isCompleted").type # "boolean")
       => /\ res'.status = 400
          /\ dataMap' = dataMap
          /\ nextId' = nextId
      ]_vars

\* a PUT whose only fault is an empty describe was rejected on an existing id
C5_Witness ==
    /\ req.method = "PUT"
    /\ req.body = EmptyDescribe
    /\ Has(dataMap, req.id)
    /\ res.status = 400

\* C6: a PATCH of an existing id is answered 201 for every body, and a GET of
\* the id right afterwards answers exactly the fields of the body, each with
\* the body's value, and an id field; the keys of the store, every other
\* record and nextId are unchanged.
C6_PatchOverwrites ==
    [][(req'.method = "PATCH" /\ Has(dataMap, req'.id)) =>
        LET id == req'.id
            body == req'.body
            got == GetTask(dataMap', id)
        IN  /\ res'.status = 201
            /\ got.status = 200
            /\ DOMAIN got.body.v = DOMAIN body.v \cup {"id"}
            /\ \A f \in DOMAIN body.v : got.body.v[f] = body.v[f]
            /\ MapGet(dataMap', id) = body
            /\ nextId' = nextId
            /\ Len(dataMap') = Len(dataMap)
            /\ \A i \in 1..Len(dataMap) :
                  /\ dataMap'[i].key = dataMap[i].key
                  /\ dataMap[i].key # id => dataMap'[i] = dataMap[i]
      ]_vars

\* a PATCH with the body without describe and isCompleted, after which the
\* record has neither, beside another record
C6_Witness ==
    /\ req.method = "PATCH"
    /\ req.body = TaskZ
    /\ res.status = 201
    /\ Len(dataMap) >= 2
    /\ ~HasProp(GetTask(dataMap, req.id).body, "isCompleted")
    /\ \E i \in 1..Len(dataMap) :
          dataMap[i].key # req.id /\ HasProp(dataMap[i].value, "isCompleted")

\* C7: the 201 response of a PATCH carries an id field equal to the path id.
C7_PatchResponseHasId ==
    (req.method = "PATCH" /\ res.status = 201) =>
        Prop(res.body, "id") = Str(req.id)

\* C8: after a DELETE answered 200, a GET of that id answers 404, and an id
\* that was issued and is no key of the store is no key after any later step.
C8_DeletedStaysNotFound ==
    [][/\ (req'.method = "DELETE" /\ res'.status = 200) =>
            GetTask(dataMap', req'.id).status = 404
       /\ \A id \in Issued(nextId) :
            ~Has(dataMap, id) => GetTask(dataMap', id).status = 404
      ]_vars

\* id 1 was deleted, and a later create, answered with id 2, left it absent
C8_Witness ==
    /\ IsCreateOne(req)
    /\ Prop(res.body, "id") = Str("2")
    /\ Keys(dataMap) = {"2"}
    /\ GetTask(dataMap, "1").status = 404

\* C9: every key of the store is an id issued so far, so the id a POST
\* generates next is no key, and no POST is answered 400.
C9_NoCollision ==
    /\ Keys(dataMap) \subseteq Issued(nextId)
    /\ ~Has(dataMap, NewId(nextId))
    /\ req.method = "POST" => res.status = 201

\* an array POST went through after single creates and a delete
C9_Witness ==
    /\ IsCreateBatch(req)
    /\ Len(req.body.v) >= 1
    /\ res.status = 201
    /\ nextId = MaxId + 1
    /\ Len(dataMap) < MaxId

\* the record stored for a created task keeps no id inside value when the
\* input had one, and keeps the other fields of value
Stripped(input, stored) ==
    HasProp(Prop(input, "value"), "id") =>
        /\ ~HasProp(Prop(stored, "value"), "id")
        /\ \A f \in DOMAIN Prop(input, "value").v \ {"id"} :
              Prop(Prop(stored, "value"), f) = Prop(input, "value").v[f]

\* C10: a task created by POST, alone or in an array, whose input has an id
\* inside value, whatever that id is, is stored with no id inside value and
\* with the other fields of value.
C10_ValueIdStripped ==
    /\ IsCreateOne(req) =>
          Stripped(req.body, MapGet(dataMap, Prop(res.body, "id").v))
    /\ (IsCreateBatch(req) /\ res.status = 201) =>
          \A i \in 1..Len(req.body.v) :
              Stripped(req.body.v[i], MapGet(dataMap, Prop(res.body.v[i], "id").v))

====
